---- MODULE Spec2Model ----
(***************************************************************************)
(* EchoBot 9000: the POST /chat handler of netlify/functions/api.js and    *)
(* the sendMessage client of public/index.html.                            *)
(*                                                                         *)
(* Strings are sequences of one-character strings, so that toLowerCase,    *)
(* toUpperCase, trim and includes are computed character by character.     *)
(***************************************************************************)
EXTENDS Integers, Sequences, FiniteSets, TLC

\* ------------------------------------------------------------------ bounds
\* Every string over Alphabet of at most MaxLen characters is a message.
MaxLen == 1
\* Requests the endpoint receives in one behaviour.
MaxRequests == 2
\* Send attempts (clicks and Enter presses) of one page in one behaviour.
MaxSends == 2

RequestIds == 1..MaxRequests

VARIABLES
    req,            \* req[r]: the stage of request r, its body, its path
    res,            \* res[r]: the responses sent for request r, in order
    inputValue,     \* messageInput.value
    inputDisabled,  \* messageInput.disabled
    buttonDisabled, \* sendButton.disabled
    loadingHidden,  \* loadingIndicator has class "hidden"
    thread,         \* the bubbles of chatMessagesDiv, oldest first
    calls,          \* the sendMessage calls that went on to fetch
    posts,          \* the fetch calls made, oldest first
    sends           \* how many times a listener has called sendMessage

serverVars == <<req, res>>
clientVars ==
    <<inputValue, inputDisabled, buttonDisabled, loadingHidden, thread,
      calls, posts, sends>>
vars == <<req, res, inputValue, inputDisabled, buttonDisabled, loadingHidden,
          thread, calls, posts, sends>>

\* ------------------------------------------------------- JavaScript strings
LowerLetters ==
    <<"a", "b", "c", "d", "e", "f", "g", "h", "i", "j", "k", "l", "m",
      "n", "o", "p", "q", "r", "s", "t", "u", "v", "w", "x", "y", "z">>
UpperLetters ==
    <<"A", "B", "C", "D", "E", "F", "G", "H", "I", "J", "K", "L", "M",
      "N", "O", "P", "Q", "R", "S", "T", "U", "V", "W", "X", "Y", "Z">>

\* The characters String.prototype.trim removes (those the model uses).
WhiteSpace == {" ", "\t", "\n"}

\* The case mappings of the ASCII letters; every other character maps to
\* itself.
LowerOf ==
    [c \in {UpperLetters[i] : i \in 1..Len(UpperLetters)} |->
        LowerLetters[CHOOSE i \in 1..Len(UpperLetters) : UpperLetters[i] = c]]
UpperOf ==
    [c \in {LowerLetters[i] : i \in 1..Len(LowerLetters)} |->
        UpperLetters[CHOOSE i \in 1..Len(LowerLetters) : LowerLetters[i] = c]]

ToLowerChar(c) == IF c \in DOMAIN LowerOf THEN LowerOf[c] ELSE c
ToUpperChar(c) == IF c \in DOMAIN UpperOf THEN UpperOf[c] ELSE c

\* String.prototype.toLowerCase / toUpperCase
toLowerCase(s) == [i \in 1..Len(s) |-> ToLowerChar(s[i])]
toUpperCase(s) == [i \in 1..Len(s) |-> ToUpperChar(s[i])]

\* String.prototype.trim: drop leading and trailing white space.
RECURSIVE TrimStart(_)
TrimStart(s) ==
    IF s # <<>> /\ Head(s) \in WhiteSpace THEN TrimStart(Tail(s)) ELSE s

RECURSIVE TrimEnd(_)
TrimEnd(s) ==
    IF s # <<>> /\ s[Len(s)] \in WhiteSpace
    THEN TrimEnd(SubSeq(s, 1, Len(s) - 1))
    ELSE s

trim(s) == TrimEnd(TrimStart(s))

\* String.prototype.includes: sub occurs in s as a contiguous substring.
includes(s, sub) ==
    \E i \in 1..(Len(s) - Len(sub) + 1) : SubSeq(s, i, i + Len(sub) - 1) = sub

\* ------------------------------------------------------- JavaScript values
\* A JSON value as the handler sees it. kind is the value's sort; the other
\* fields hold its content and are blank for the sorts that have none.
JSString(s)  == [kind |-> "string",    str |-> s,    num |-> 0, bool |-> FALSE]
JSNumber(n)  == [kind |-> "number",    str |-> <<>>, num |-> n, bool |-> FALSE]
JSBoolean(b) == [kind |-> "boolean",   str |-> <<>>, num |-> 0, bool |-> b]
JSNull       == [kind |-> "null",      str |-> <<>>, num |-> 0, bool |-> FALSE]
JSUndefined  == [kind |-> "undefined", str |-> <<>>, num |-> 0, bool |-> FALSE]
JSObject     == [kind |-> "object",    str |-> <<>>, num |-> 0, bool |-> FALSE]
JSArray      == [kind |-> "array",     str |-> <<>>, num |-> 0, bool |-> FALSE]

\* typeof v
TypeOf(v) ==
    CASE v.kind = "null"  -> "object"
      [] v.kind = "array" -> "object"
      [] OTHER            -> v.kind

\* !v : undefined, null, 0, false and "" are falsy; everything else is truthy.
Falsy(v) ==
    \/ v.kind \in {"undefined", "null"}
    \/ v.kind = "number" /\ v.num = 0
    \/ v.kind = "boolean" /\ ~v.bool
    \/ v.kind = "string" /\ v.str = <<>>

\* ------------------------------------------------------------------ inputs
Alphabet == {"h", "I"}

RECURSIVE StringsUpTo(_)
StringsUpTo(n) ==
    IF n = 0 THEN {<<>>}
    ELSE LET shorter == StringsUpTo(n - 1)
         IN  shorter \cup {Append(s, c) : s \in shorter, c \in Alphabet}

HelloThere == <<"H", "e", "l", "l", "o", " ", "t", "h", "e", "r", "e">>
Samples ==
    { HelloThere,
      <<"t", "h", "i", "s">>,
      <<" ", "u", "p", "\n">>,
      <<" ">> }

Strings == StringsUpTo(MaxLen) \cup Samples

Messages ==
    {JSString(s) : s \in Strings}
        \cup {JSUndefined, JSNull, JSNumber(0), JSBoolean(TRUE),
              JSObject, JSArray}

\* req.body: absent (undefined), or a parsed object whose message field is
\* any JSON value (JSUndefined when the object has no such field).
Bodies ==
    {[present |-> FALSE, message |-> JSUndefined]}
        \cup {[present |-> TRUE, message |-> m] : m \in Messages}

\* Instants new Date() can return. The wall clock is neither unique nor
\* monotonic, so each reading is any of them.
Times == {"T0", "T1"}

\* --------------------------------------------------------- chat endpoint
VALIDATION_ERROR == "Message is required and must be a non-empty string."
INTERNAL_ERROR == "An unexpected error occurred while processing your request."
PROCESSED == "Processed by EchoBot 9000 @ "
ERROR_PROCESSED == "Error processed by EchoBot 9000 @ "
\* error.message of the TypeError thrown by destructuring undefined.
DESTRUCTURE_ERROR ==
    "Cannot destructure property 'message' of 'req.body' as it is undefined."

GREETING ==
    <<"G", "r", "e", "e", "t", "i", "n", "g", "s", ",", " ", "h", "u", "m",
      "a", "n", "!", " ", "H", "o", "w", " ", "c", "a", "n", " ", "I", " ",
      "a", "s", "s", "i", "s", "t", " ", "y", "o", "u", "?">>
BOT_SAYS == <<"B", "O", "T", " ", "S", "A", "Y", "S", ":", " ">>
HELLO == <<"h", "e", "l", "l", "o">>
HI == <<"h", "i">>

\* `Processed by EchoBot 9000 @ ${new Date().toISOString()}`: the template's
\* fixed text and the instant interpolated into it.
Signature(tag, t) == [text |-> tag, time |-> t]

\* const { message } = req.body;  throws when req.body is undefined.
DestructureThrows(body) == ~body.present

\* !message || typeof message !== 'string' || message.trim() === ''
ValidationFails(message) ==
    \/ Falsy(message)
    \/ TypeOf(message) # "string"
    \/ trim(message.str) = <<>>

\* The message matched as received, its case kept.
lowerCaseMessageCaseKept(message) == message.str

lowerCaseMessage(message) == toLowerCase(message.str)

IsGreeting(message) ==
    \/ includes(lowerCaseMessage(message), HELLO)
    \/ includes(lowerCaseMessage(message), HI)

\* Rule 2 echoing the trimmed message instead of the message as received.
botResponseTrimmed(message) ==
    IF IsGreeting(message)
    THEN GREETING
    ELSE BOT_SAYS \o toUpperCase(trim(message.str))

\* botResponse declared at module level and built with +=, so that an answer
\* starts with the text of an earlier one.
botResponseShared(message) ==
    LET earlier == {r \in RequestIds :
                      Len(res[r]) > 0 /\ "response" \in DOMAIN res[r][1].json}
        kept == IF earlier = {} THEN <<>>
                ELSE res[CHOOSE r \in earlier : TRUE][1].json.response
    IN  kept \o (IF IsGreeting(message) THEN GREETING
                 ELSE BOT_SAYS \o toUpperCase(message.str))

botResponse(message) ==
    IF IsGreeting(message)
    THEN GREETING
    ELSE BOT_SAYS \o toUpperCase(message.str)

\* The 400 answer signed with the success tag.
Response400SuccessTag(t) ==
    [status |-> 400,
     json |-> [error |-> VALIDATION_ERROR,
               backendSignature |-> Signature(PROCESSED, t)]]

\* res.status(400).json({error, backendSignature})
Response400(t) ==
    [status |-> 400,
     json |-> [error |-> VALIDATION_ERROR,
               backendSignature |-> Signature(ERROR_PROCESSED, t)]]

\* res.status(200).json({response, backendSignature})
Response200(message, t) ==
    [status |-> 200,
     json |-> [response |-> botResponse(message),
               backendSignature |-> Signature(PROCESSED, t)]]

\* The 500 answer with the generic text in place of the fault's description.
Response500NoDetails(error, t) ==
    [status |-> 500,
     json |-> [error |-> INTERNAL_ERROR,
               details |-> INTERNAL_ERROR,
               backendSignature |-> Signature(ERROR_PROCESSED, t)]]

\* res.status(500).json({error, details, backendSignature})
Response500(error, t) ==
    [status |-> 500,
     json |-> [error |-> INTERNAL_ERROR,
               details |-> error,
               backendSignature |-> Signature(ERROR_PROCESSED, t)]]

\* catch (error) { ... }: the handler's answer to a fault raised after path.
Catch(path, error, t) ==
    [path  |-> Append(path, "Faulted"),
     sends |-> <<Response500(error, t)>>,
     fault |-> error]

\* The handler with the `return` before res.status(400) left out: after the
\* 400 it goes on to the transformation, which throws on a non-string
\* message (no toLowerCase) and answers a blank string with a 200.
ChatRouteNoReturn(body, t) ==
    IF DestructureThrows(body)
    THEN Catch(<<"Received">>, DESTRUCTURE_ERROR, t)
    ELSE IF ValidationFails(body.message)
    THEN IF TypeOf(body.message) # "string"
         THEN [path  |-> <<"Received", "Rejected", "Faulted">>,
               sends |-> <<Response400(t),
                           Response500("message.toLowerCase is not a function", t)>>,
               fault |-> "message.toLowerCase is not a function"]
         ELSE [path  |-> <<"Received", "Rejected", "Transformed", "Responded">>,
               sends |-> <<Response400(t), Response200(body.message, t)>>,
               fault |-> ""]
    ELSE [path  |-> <<"Received", "Validated", "Transformed", "Responded">>,
          sends |-> <<Response200(body.message, t)>>,
          fault |-> ""]

\* The body of app.post('/chat', ...) for one request: the stages it passes,
\* the responses it sends, and the description of the fault it caught ("" if
\* none). t is the instant its new Date() reads.
ChatRoute(body, t) ==
    IF DestructureThrows(body)
    THEN Catch(<<"Received">>, DESTRUCTURE_ERROR, t)
    ELSE IF ValidationFails(body.message)
    THEN [path  |-> <<"Received", "Rejected">>,
          sends |-> <<Response400(t)>>,
          fault |-> ""]
    ELSE [path  |-> <<"Received", "Validated", "Transformed", "Responded">>,
          sends |-> <<Response200(body.message, t)>>,
          fault |-> ""]

NoBody == [present |-> FALSE, message |-> JSUndefined]
Terminal == {"Responded", "Rejected", "Faulted"}

\* ------------------------------------------------------------- client page
NETWORK_ERROR == "Network error or server unavailable. Please try again."
SERVER_ERROR == "An unexpected error occurred on the server."

\* Texts the user can leave in the input field.
InputTexts ==
    { <<>>, <<" ">>, <<"h", "i">>, <<" ", "u", "p", "\n">> }

\* What fetch can resolve with for a POST carrying userMessage: the chat
\* endpoint's own answer, its two error answers, an error answer with no
\* error field, and a gateway page that is not JSON.
EndpointReply(r) == [status |-> r.status, parseable |-> TRUE, json |-> r.json]

Replies(userMessage) ==
    UNION { { EndpointReply(
                ChatRoute([present |-> TRUE,
                           message |-> JSString(userMessage)], t).sends[1]),
              EndpointReply(Response400(t)),
              EndpointReply(Response500(DESTRUCTURE_ERROR, t)) } : t \in Times }
        \cup { [status |-> 404, parseable |-> TRUE,
                json |-> [message |-> "Not Found"]],
               [status |-> 502, parseable |-> FALSE,
                json |-> [raw |-> "<html>Bad Gateway</html>"]] }

NoReply == [status |-> 0, parseable |-> FALSE, json |-> [raw |-> ""]]

\* Response.ok
Ok(response) == response.status >= 200 /\ response.status <= 299

Init ==
    /\ req = [r \in RequestIds |->
                [stage |-> "Idle", body |-> NoBody, path |-> <<>>, fault |-> ""]]
    /\ res = [r \in RequestIds |-> <<>>]
    /\ inputValue = <<>>
    /\ inputDisabled = FALSE
    /\ buttonDisabled = FALSE
    /\ loadingHidden = TRUE
    /\ thread = <<>>
    /\ calls = <<>>
    /\ posts = <<>>
    /\ sends = 0

\* A POST /chat arrives; Express hands it to the handler.
Receive(r, body) ==
    /\ req[r].stage = "Idle"
    /\ \A q \in RequestIds : q < r => req[q].stage # "Idle"
    /\ req' = [req EXCEPT ![r] =
                 [stage |-> "Received", body |-> body,
                  path |-> <<"Received">>, fault |-> ""]]
    /\ UNCHANGED res
    /\ UNCHANGED clientVars

\* app.post('/chat', ...): one run of the handler, which has no await and so
\* runs to completion; t is the instant its new Date() reads.
ChatHandler(r, t) ==
    /\ req[r].stage = "Received"
    /\ LET run == ChatRoute(req[r].body, t)
       IN  /\ req' = [req EXCEPT ![r].stage = run.path[Len(run.path)],
                                 ![r].path = run.path,
                                 ![r].fault = run.fault]
           /\ res' = [res EXCEPT ![r] = res[r] \o run.sends]
    /\ UNCHANGED clientVars

Next ==
    \/ \E r \in RequestIds, body \in Bodies : Receive(r, body)
    \/ \E r \in RequestIds, t \in Times : ChatHandler(r, t)

Spec == Init /\ [][Next]_vars

\* While a received request waits, the event loop goes on to run the handler.
FairSpec ==
    Spec /\ WF_vars(\E r \in RequestIds, t \in Times : ChatHandler(r, t))

\* displayMessage(sender, message, backendSignature = null)
Bubble(sender, message, backendSignature) ==
    [sender |-> sender, text |-> message, signature |-> backendSignature]
NoSignature == [text |-> "", time |-> ""]

displayMessage(sender, message, backendSignature) ==
    Append(thread, Bubble(sender, message, backendSignature))

InFlight == {c \in 1..Len(calls) : calls[c].pc \in {"fetch", "json"}}

\* The user edits the input field (a disabled field takes no input).
Type(text) ==
    /\ ~inputDisabled
    /\ inputValue' = text
    /\ UNCHANGED <<inputDisabled, buttonDisabled, loadingHidden, thread,
                   calls, posts, sends>>
    /\ UNCHANGED serverVars

\* sendMessage posting the input as typed (trimmed only for the blank test).
SendMessageUntrimmed ==
    LET userMessage == inputValue
    IN  /\ sends' = sends + 1
        /\ IF trim(inputValue) = <<>>
           THEN UNCHANGED <<inputValue, inputDisabled, buttonDisabled,
                            loadingHidden, thread, calls, posts>>
           ELSE /\ inputDisabled' = TRUE
                /\ buttonDisabled' = TRUE
                /\ loadingHidden' = FALSE
                /\ thread' = displayMessage("user", userMessage, NoSignature)
                /\ posts' = Append(posts, [url |-> "/api/chat",
                                           method |-> "POST",
                                           message |-> userMessage])
                /\ calls' = Append(calls, [userMessage |-> userMessage,
                                           pc |-> "fetch",
                                           response |-> NoReply,
                                           outcome |-> "pending"])
                /\ UNCHANGED inputValue
        /\ UNCHANGED serverVars

\* sendMessage without the two `disabled = true` assignments.
SendMessageLeavesEnabled ==
    LET userMessage == trim(inputValue)
    IN  /\ sends' = sends + 1
        /\ IF userMessage = <<>>
           THEN UNCHANGED <<inputValue, inputDisabled, buttonDisabled,
                            loadingHidden, thread, calls, posts>>
           ELSE /\ loadingHidden' = FALSE
                /\ thread' = displayMessage("user", userMessage, NoSignature)
                /\ posts' = Append(posts, [url |-> "/api/chat",
                                           method |-> "POST",
                                           message |-> userMessage])
                /\ calls' = Append(calls, [userMessage |-> userMessage,
                                           pc |-> "fetch",
                                           response |-> NoReply,
                                           outcome |-> "pending"])
                /\ UNCHANGED <<inputValue, inputDisabled, buttonDisabled>>
        /\ UNCHANGED serverVars

\* sendMessage() up to its first await.
SendMessage ==
    LET userMessage == trim(inputValue)
    IN  /\ sends' = sends + 1
        /\ IF userMessage = <<>>
           THEN UNCHANGED <<inputValue, inputDisabled, buttonDisabled,
                            loadingHidden, thread, calls, posts>>
           ELSE /\ inputDisabled' = TRUE
                /\ buttonDisabled' = TRUE
                /\ loadingHidden' = FALSE
                /\ thread' = displayMessage("user", userMessage, NoSignature)
                /\ posts' = Append(posts, [url |-> "/api/chat",
                                           method |-> "POST",
                                           message |-> userMessage])
                /\ calls' = Append(calls, [userMessage |-> userMessage,
                                           pc |-> "fetch",
                                           response |-> NoReply,
                                           outcome |-> "pending"])
                /\ UNCHANGED inputValue
        /\ UNCHANGED serverVars

\* sendButton's click listener; a disabled button dispatches no click.
ClickSend ==
    /\ ~buttonDisabled
    /\ sends < MaxSends
    /\ SendMessage

\* messageInput's keypress listener, for the Enter key; a disabled field
\* receives no key events.
PressEnter ==
    /\ ~inputDisabled
    /\ sends < MaxSends
    /\ SendMessage

\* finally { ... }
Finally ==
    /\ inputValue' = <<>>
    /\ inputDisabled' = FALSE
    /\ buttonDisabled' = FALSE
    /\ loadingHidden' = TRUE

\* fetch resolves: sendMessage goes on to await response.json().
FetchResolves(c, response) ==
    /\ calls[c].pc = "fetch"
    /\ calls' = [calls EXCEPT ![c].pc = "json", ![c].response = response]
    /\ UNCHANGED <<inputValue, inputDisabled, buttonDisabled, loadingHidden,
                   thread, posts, sends>>
    /\ UNCHANGED serverVars

\* The network fault handled with the re-enabling left at the end of the try
\* block instead of in finally: the catch runs and nothing is re-enabled.
FetchRejectsNoFinally(c) ==
    /\ calls[c].pc = "fetch"
    /\ thread' = displayMessage("bot", <<NETWORK_ERROR>>, NoSignature)
    /\ calls' = [calls EXCEPT ![c].pc = "done", ![c].outcome = "networkFault"]
    /\ UNCHANGED <<inputValue, inputDisabled, buttonDisabled, loadingHidden,
                   posts, sends>>
    /\ UNCHANGED serverVars

\* fetch rejects (network fault): catch, then finally.
FetchRejects(c) ==
    /\ calls[c].pc = "fetch"
    /\ thread' = displayMessage("bot", <<NETWORK_ERROR>>, NoSignature)
    /\ calls' = [calls EXCEPT ![c].pc = "done", ![c].outcome = "networkFault"]
    /\ Finally
    /\ UNCHANGED <<posts, sends>>
    /\ UNCHANGED serverVars

\* response.json() resolves: the reply or the error text, then finally.
JsonResolves(c) ==
    /\ calls[c].pc = "json"
    /\ calls[c].response.parseable
    /\ LET response == calls[c].response
           data == response.json
       IN  IF Ok(response)
           THEN /\ thread' = displayMessage("bot", data.response,
                                            data.backendSignature)
                /\ calls' = [calls EXCEPT ![c].pc = "done",
                                          ![c].outcome = "reply"]
           ELSE /\ thread' = displayMessage("bot",
                                <<"Error: ",
                                  IF "error" \in DOMAIN data /\ data.error # ""
                                  THEN data.error ELSE SERVER_ERROR>>,
                                NoSignature)
                /\ calls' = [calls EXCEPT ![c].pc = "done",
                                          ![c].outcome = "errorReply"]
    /\ Finally
    /\ UNCHANGED <<posts, sends>>
    /\ UNCHANGED serverVars

\* response.json() rejects (the body is not JSON): catch, then finally.
JsonRejects(c) ==
    /\ calls[c].pc = "json"
    /\ ~calls[c].response.parseable
    /\ thread' = displayMessage("bot", <<NETWORK_ERROR>>, NoSignature)
    /\ calls' = [calls EXCEPT ![c].pc = "done", ![c].outcome = "badJson"]
    /\ Finally
    /\ UNCHANGED <<posts, sends>>
    /\ UNCHANGED serverVars

ClientNext ==
    \/ \E text \in InputTexts : Type(text)
    \/ ClickSend
    \/ PressEnter
    \/ \E c \in 1..Len(calls) :
          \E response \in Replies(calls[c].userMessage) :
            FetchResolves(c, response)
    \/ \E c \in 1..Len(calls) : FetchRejects(c)
    \/ \E c \in 1..Len(calls) : JsonResolves(c)
    \/ \E c \in 1..Len(calls) : JsonRejects(c)

ClientSpec == Init /\ [][ClientNext]_vars

\* =================================================================== claims
Answered(r) == req[r].stage \in Terminal

\* The one response sent for r has this status.
AnsweredWith(r, status) == Len(res[r]) = 1 /\ res[r][1].status = status

Field(json, name) == IF name \in DOMAIN json THEN json[name] ELSE "(absent)"

\* C1: a string message that is non-empty after trimming and whose lower-cased
\* form contains "hello" or "hi" anywhere is answered with 200 and the fixed
\* greeting; the greeting rule wins over the echo rule.
C1_GreetingRule ==
    \A r \in RequestIds :
        LET m == req[r].body.message
        IN  ( /\ Answered(r)
              /\ req[r].body.present
              /\ m.kind = "string"
              /\ trim(m.str) # <<>>
              /\ \/ includes(toLowerCase(m.str), HELLO)
                 \/ includes(toLowerCase(m.str), HI) )
            => /\ AnsweredWith(r, 200)
               /\ Field(res[r][1].json, "response") = GREETING

\* "this" holds "hi" inside another word and is greeted, as is "Hello there".
C1_Witness ==
    /\ \E r \in RequestIds :
        /\ req[r].body.message = JSString(<<"t", "h", "i", "s">>)
        /\ AnsweredWith(r, 200)
        /\ res[r][1].json.response = GREETING
    /\ \E r \in RequestIds :
        /\ req[r].body.message = JSString(HelloThere)
        /\ AnsweredWith(r, 200)
        /\ res[r][1].json.response = GREETING

\* C2: a string message that is non-empty after trimming and whose lower-cased
\* form contains neither "hello" nor "hi" is answered with 200 and
\* "BOT SAYS: " followed by the message as received, upper-cased.
C2_EchoRule ==
    \A r \in RequestIds :
        LET m == req[r].body.message
        IN  ( /\ Answered(r)
              /\ req[r].body.present
              /\ m.kind = "string"
              /\ trim(m.str) # <<>>
              /\ ~includes(toLowerCase(m.str), HELLO)
              /\ ~includes(toLowerCase(m.str), HI) )
            => /\ AnsweredWith(r, 200)
               /\ Field(res[r][1].json, "response")
                    = BOT_SAYS \o [i \in 1..Len(m.str) |-> ToUpperChar(m.str[i])]

\* " up\n" is echoed with its white space kept, and "h" as "H".
C2_Witness ==
    /\ \E r \in RequestIds :
        /\ req[r].body.message = JSString(<<" ", "u", "p", "\n">>)
        /\ AnsweredWith(r, 200)
        /\ res[r][1].json.response =
             <<"B", "O", "T", " ", "S", "A", "Y", "S", ":", " ",
               " ", "U", "P", "\n">>
    /\ \E r \in RequestIds :
        /\ req[r].body.message = JSString(<<"h">>)
        /\ AnsweredWith(r, 200)
        /\ res[r][1].json.response =
             <<"B", "O", "T", " ", "S", "A", "Y", "S", ":", " ", "H">>

C4_SignatureOnEveryResponse ==
    \A r \in RequestIds : \A i \in 1..Len(res[r]) :
        LET response == res[r][i]
        IN  /\ response.status \in {200, 400, 500}
            /\ "backendSignature" \in DOMAIN response.json
            /\ response.json.backendSignature.text # ""
            /\ response.json.backendSignature.time \in Times
            /\ response.status = 200
                 <=> response.json.backendSignature.text = PROCESSED
            /\ response.status \in {400, 500}
                 <=> response.json.backendSignature.text = ERROR_PROCESSED

\* One behaviour holds a 200 and a 400, or a 400 and a 500.
C4_Witness ==
    /\ \E r \in RequestIds : AnsweredWith(r, 400)
    /\ \E r \in RequestIds : AnsweredWith(r, 500) \/ AnsweredWith(r, 200)

\* C5: a fault raised while the handler runs (req.body absent: the
\* destructuring throws before validation) is caught and answered once, with
\* 500, the generic error text, details equal to the fault's description and
\* an error-tagged signature; the request is not handled again.
C5_FaultAnswered ==
    \A r \in RequestIds :
        /\ (Answered(r) /\ ~req[r].body.present) => req[r].fault # ""
        /\ req[r].fault # "" =>
            /\ req[r].stage = "Faulted"
            /\ req[r].path = <<"Received", "Faulted">>
            /\ AnsweredWith(r, 500)
            /\ DOMAIN res[r][1].json = {"error", "details", "backendSignature"}
            /\ res[r][1].json.error = INTERNAL_ERROR
            /\ res[r][1].json.details = req[r].fault
            /\ res[r][1].json.backendSignature.text = ERROR_PROCESSED

C5_Witness ==
    \E r \in RequestIds :
        /\ ~req[r].body.present
        /\ req[r].stage = "Faulted"
        /\ res[r][1].json.details = DESTRUCTURE_ERROR

\* The three paths of the endpoint's state machine.
Paths ==
    { <<"Received", "Validated", "Transformed", "Responded">>,
      <<"Received", "Rejected">>,
      <<"Received", "Faulted">> }

StatusOf(stage) ==
    CASE stage = "Responded" -> 200
      [] stage = "Rejected"  -> 400
      [] stage = "Faulted"   -> 500

C6_Shape ==
    \A r \in RequestIds :
        /\ req[r].stage \notin Terminal => res[r] = <<>>
        /\ req[r].stage \in Terminal =>
            /\ req[r].path \in Paths
            /\ req[r].path[Len(req[r].path)] = req[r].stage
            /\ AnsweredWith(r, StatusOf(req[r].stage))
            /\ LET json == res[r][1].json
               IN  IF res[r][1].status = 200
                   THEN "response" \in DOMAIN json /\ "error" \notin DOMAIN json
                   ELSE "error" \in DOMAIN json /\ "response" \notin DOMAIN json
        /\ \A i \in 1..Len(req[r].path) :
             req[r].path[i] = "Transformed"
               => \E j \in 1..(i - 1) : req[r].path[j] = "Validated"

\* C6: every request follows exactly one of Received -> Validated ->
\* Transformed -> Responded(200), Received -> Rejected(400) and Received ->
\* Faulted(500): it sends exactly one response, whose body has `response` and
\* no `error` on 200 and `error` and no `response` on 400/500; it is never
\* transformed before it is validated; a received request changes only by
\* being answered and an answered one never changes again; and every
\* received request is eventually answered (no request stays Received, so
\* again and again none is waiting).
C6_OnePathPerRequest ==
    /\ []C6_Shape
    /\ [][\A r \in RequestIds :
            /\ req[r].stage \in Terminal
                 => (req'[r] = req[r] /\ res'[r] = res[r])
            /\ (req[r].stage = "Received" /\ req'[r] # req[r])
                 => req'[r].stage \in Terminal]_vars
    /\ []<>(\A r \in RequestIds : req[r].stage # "Received")

C6_Witness ==
    /\ \E r \in RequestIds : req[r].stage = "Responded" /\ Len(res[r]) = 1
    /\ \E r \in RequestIds :
         req[r].stage \in {"Rejected", "Faulted"} /\ Len(res[r]) = 1

\* A response's body without the instant in its signature.
Content(response) ==
    [status |-> response.status,
     response |-> Field(response.json, "response"),
     error |-> Field(response.json, "error"),
     details |-> Field(response.json, "details"),
     tag |-> IF "backendSignature" \in DOMAIN response.json
             THEN response.json.backendSignature.text ELSE "(absent)"]

Settled == {c \in 1..Len(calls) : calls[c].pc = "done"}

\* C8: the input and the send button are disabled (and the loading indicator
\* shown) whenever a chat request is in flight, and are enabled (and the
\* indicator hidden) whenever none is: after a 200 reply, a 400/500 reply, a
\* body that is not JSON and a network fault alike.
C8_ControlsFollowRequest ==
    /\ InFlight # {} => (inputDisabled /\ buttonDisabled /\ ~loadingHidden)
    /\ InFlight = {} => (~inputDisabled /\ ~buttonDisabled /\ loadingHidden)
    /\ \A c \in Settled :
         calls[c].outcome \in {"reply", "errorReply", "badJson", "networkFault"}

\* Two sends have settled on failure paths and the controls are enabled.
C8_Witness ==
    /\ InFlight = {}
    /\ ~inputDisabled /\ ~buttonDisabled /\ loadingHidden
    /\ \E c \in Settled : calls[c].outcome \in {"badJson", "networkFault"}
    /\ \E c \in Settled : calls[c].outcome \in {"errorReply", "reply"}

\* C9 as stated: every click on the send button and every Enter press makes
\* one POST carrying the trimmed input.
C9_EverySendPosts ==
    [][sends' = sends + 1
         => posts' = Append(posts, [url |-> "/api/chat", method |-> "POST",
                                    message |-> trim(inputValue)])]_vars

\* C9 amended: a click or Enter press on an input that is non-empty after
\* trimming makes exactly one POST to /api/chat carrying the trimmed input;
\* one on a blank input makes no POST; nothing else makes a POST.
C9_NonBlankSendPostsOnce ==
    [][/\ sends' = sends + 1 =>
            IF trim(inputValue) # <<>>
            THEN posts' = Append(posts, [url |-> "/api/chat", method |-> "POST",
                                         message |-> trim(inputValue)])
            ELSE posts' = posts
       /\ posts' # posts => sends' = sends + 1]_vars

\* A send of " up\n" has posted "up", and a send on a blank input has not.
C9_Witness ==
    /\ Len(posts) >= 1
    /\ posts[1].message = <<"u", "p">>
    /\ sends > Len(posts)

\* C10: at most one chat request is in flight, and the thread alternates: a
\* user bubble, then exactly one bot bubble, before the next user bubble.
C10_OneRequestInFlight ==
    /\ Cardinality(InFlight) <= 1
    /\ Len(thread) = 2 * Cardinality(Settled) + Cardinality(InFlight)
    /\ \A i \in 1..Len(thread) :
         thread[i].sender = IF i % 2 = 1 THEN "user" ELSE "bot"

\* Two complete exchanges: user, bot, user, bot.
C10_Witness ==
    /\ Len(thread) >= 4
    /\ thread[1].sender = "user" /\ thread[2].sender = "bot"
    /\ thread[3].sender = "user" /\ thread[4].sender = "bot"

====
